---- MODULE Spec2Model ----
(***************************************************************************)
(* LVGL v9 file-system port over LittleFS (lv_port_fs.c).                  *)
(*                                                                         *)
(* The nine driver callbacks (fs_open .. fs_dir_close) are modelled as     *)
(* actions over the flash file system, the table of FILE streams, the      *)
(* table of DIR streams and the record of the most recent call.  The path  *)
(* translation of fs_open / fs_dir_open is a pure function of the bytes    *)
(* the path pointer designates; it is additionally exercised on its own by *)
(* SpecPath.  SpecRT runs the write / close / reopen / read scenario.      *)
(***************************************************************************)
EXTENDS Integers, Sequences, FiniteSets, TLC

VARIABLES
    fsys,     \* flash: OS path -> content, for the files that exist
    files,    \* FILE streams, indexed by handle value
    dirs,     \* DIR streams, indexed by handle value
    last,     \* the most recent driver call: arguments, result, outputs
    ub,       \* TRUE once a call has had undefined behaviour
    tr,       \* path-translation harness (SpecPath)
    rt        \* round-trip scenario (SpecRT)

vars == <<fsys, files, dirs, last, ub, tr, rt>>

(***************************************************************************)
(* Bounds of the model.                                                    *)
(***************************************************************************)
MaxFileLen == 1    \* longest file content, in bytes
MaxFiles   == 1    \* FILE streams the OS can hand out at once
MaxDirs    == 1    \* DIR streams the OS can hand out at once
MaxFnLen   == 3    \* largest name buffer passed to fs_dir_read
MaxPathLen == 3    \* longest path remainder fed to the translation harness

(***************************************************************************)
(* Program constants.                                                      *)
(***************************************************************************)
FILEPATH_SIZE  == 256   \* char filepath[256] / char dirpath[256]
LV_FS_MODE_WR  == 1
LV_FS_MODE_RD  == 2
LV_FS_SEEK_SET == 0
LV_FS_SEEK_CUR == 1
LV_FS_SEEK_END == 2

LV_FS_RES_OK      == "LV_FS_RES_OK"
LV_FS_RES_UNKNOWN == "LV_FS_RES_UNKNOWN"
NULL == 0
NUL  == "NUL"                       \* the terminating '\0' of a C string
LV_FS_PATH == <<"/", "l", "f", "s">>      \* mount point (LV_FS_PATH)

Min(a, b) == IF a < b THEN a ELSE b
Max(a, b) == IF a > b THEN a ELSE b

(***************************************************************************)
(* uint32_t arithmetic, on two 16-bit limbs <<hi, lo>>.                    *)
(***************************************************************************)
Limb == 65536
U32(n) == <<n \div Limb, n % Limb>>
U32Sub(a, b) ==
    LET lo     == a[2] - b[2]
        borrow == IF lo < 0 THEN 1 ELSE 0
    IN  <<(a[1] - b[1] - borrow) % Limb, lo % Limb>>
U32Lt(a, b) == a[1] < b[1] \/ (a[1] = b[1] /\ a[2] < b[2])
U32Max == <<Limb - 1, Limb - 1>>
\* uint32_t -> long on a 32-bit target (two's complement)
ToLong(a) == IF a[1] >= Limb \div 2 THEN (a[1] - Limb) * Limb + a[2]
                                    ELSE a[1] * Limb + a[2]

(***************************************************************************)
(* C strings in memory.  A path argument is the bytes of the string, its   *)
(* terminator, and whatever follows the terminator in memory (tail).       *)
(***************************************************************************)
Mem(path, tail) == path \o <<NUL>> \o tail \o <<NUL>>
CharAt(mem, i) == mem[i + 1]           \* mem[i], 0-based as in C
RECURSIVE CStrAt(_, _)
CStrAt(mem, i) ==
    IF i + 1 > Len(mem) \/ mem[i + 1] = NUL THEN <<>>
    ELSE <<mem[i + 1]>> \o CStrAt(mem, i + 1)

\* snprintf(buf, size, "%s", s): at most size-1 characters are stored
Snprintf(size, s) == SubSeq(s, 1, Min(Len(s), size - 1))

\* fs_open, lines 117-125: the OS path handed to fopen
OpenPathNoSlash(path, tail) ==
    LET mem == Mem(path, tail)
        p   == IF CharAt(mem, 1) = ":" THEN 2 ELSE 0
    IN  Snprintf(FILEPATH_SIZE, LV_FS_PATH \o CStrAt(mem, p))
OpenPath(path, tail) ==
    LET mem == Mem(path, tail)
        p   == IF CharAt(mem, 1) = ":" THEN 2 ELSE 0
    IN  IF CharAt(mem, p) = "/"
        THEN Snprintf(FILEPATH_SIZE, LV_FS_PATH \o CStrAt(mem, p))
        ELSE Snprintf(FILEPATH_SIZE, LV_FS_PATH \o <<"/">> \o CStrAt(mem, p))

\* fs_dir_open, lines 269-271: the OS path handed to opendir
DirPath(path, tail) ==
    LET mem == Mem(path, tail)
    IN  IF CharAt(mem, 0) = "/"
        THEN Snprintf(FILEPATH_SIZE, LV_FS_PATH \o CStrAt(mem, 0))
        ELSE Snprintf(FILEPATH_SIZE, LV_FS_PATH \o <<"/">> \o CStrAt(mem, 0))

(***************************************************************************)
(* Inputs of the driver calls.                                             *)
(***************************************************************************)
Bytes == {"h", "i"}
ByteStrings(n) == UNION {[1..k -> Bytes] : k \in 0..n}
FilePathInputs ==
    { <<"S", ":", "/", "a">>, <<"a">>, <<"S", ":", "/", "x", "/", "a">> }
WriteInputs == { <<>>, <<"h">>, <<"i", "h">> }
DirPathInputs == { <<"/">>, <<>>, <<"S", ":", "/">>, <<"S", ":">> }
Tails == { <<>>, <<":">>, <<":", "a">> }     \* bytes after a path's terminator
SeekOffsets == { U32(0), U32(1), U32Max }    \* U32Max is (uint32_t)-1
Whences == 0..3                              \* 3 is out of range
FileHandles == 1..MaxFiles
DirHandles  == 1..MaxDirs
FnLens == 0..MaxFnLen

(***************************************************************************)
(* The flash file system behind fopen / opendir.  Only the mount point's   *)
(* root directory exists; a file is created directly under it.             *)
(***************************************************************************)
RootPrefix == LV_FS_PATH \o <<"/">>
IsRootFile(p) ==
    /\ Len(p) > Len(RootPrefix)
    /\ SubSeq(p, 1, Len(RootPrefix)) = RootPrefix
    /\ \A i \in (Len(RootPrefix) + 1)..Len(p) : p[i] # "/"
IsRootDir(p) == p = LV_FS_PATH \/ p = RootPrefix
EntryName(p) == SubSeq(p, Len(RootPrefix) + 1, Len(p))
Exists(p) == p \in DOMAIN fsys

\* the orders in which readdir may deliver the entries of a directory
Orderings(S) ==
    { q \in [1..Cardinality(S) -> S] : \A i, j \in DOMAIN q : q[i] = q[j] => i = j }

FreeStream == [st |-> "free", path |-> <<>>, mode |-> "rb", pos |-> 0,
               eof |-> FALSE, err |-> FALSE]
ClosedStream == [FreeStream EXCEPT !.st = "closed"]
FreeDir == [st |-> "free", entries |-> <<>>, idx |-> 0]
ClosedDir == [FreeDir EXCEPT !.st = "closed"]

NoCall == [op |-> "none", h |-> NULL, arg |-> 0, arg2 |-> 0, res |-> "none",
           oscall |-> FALSE, stale |-> FALSE, n |-> 0, out |-> 0, wrote |-> {},
           data |-> <<>>, ospath |-> <<>>, osmode |-> "", oob |-> FALSE,
           after_seek_end |-> FALSE]

\* fread(buf, 1, btr, f)
Fread(s, btr) ==
    LET content == IF s.path \in DOMAIN fsys THEN fsys[s.path] ELSE <<>>
        avail   == Max(0, Len(content) - s.pos)
        n       == Min(btr, avail)
    IN  IF btr = 0 THEN [n |-> 0, data |-> <<>>, s |-> s]
        ELSE IF s.mode # "rb"
        THEN [n |-> 0, data |-> <<>>, s |-> [s EXCEPT !.err = TRUE]]
        ELSE [n |-> n, data |-> SubSeq(content, s.pos + 1, s.pos + n),
              s |-> [s EXCEPT !.pos = s.pos + n, !.eof = s.eof \/ n < btr]]

\* fwrite(buf, 1, btw, f); a gap left by a seek past the end reads as zero bytes
Fwrite(s, data) ==
    LET content == IF s.path \in DOMAIN fsys THEN fsys[s.path] ELSE <<>>
        padded  == content \o [i \in 1..(s.pos - Len(content)) |-> "z"]
        end     == s.pos + Len(data)
    IN  IF Len(data) = 0 THEN [n |-> 0, s |-> s, content |-> content]
        ELSE IF s.mode # "wb"
        THEN [n |-> 0, s |-> [s EXCEPT !.err = TRUE], content |-> content]
        ELSE [n |-> Len(data), s |-> [s EXCEPT !.pos = end],
              content |-> SubSeq(padded, 1, s.pos) \o data
                          \o SubSeq(padded, end + 1, Len(padded))]

\* fseek(f, (long)pos, origin): 0 on success, -1 when the target is negative
Fseek(s, off, origin) ==
    LET content == IF s.path \in DOMAIN fsys THEN fsys[s.path] ELSE <<>>
        base == CASE origin = "SEEK_SET" -> 0
                  [] origin = "SEEK_CUR" -> s.pos
                  [] origin = "SEEK_END" -> Len(content)
        to   == base + off
    IN  IF to < 0 THEN [rc |-> -1, s |-> s]
        ELSE [rc |-> 0, s |-> [s EXCEPT !.pos = to, !.eof = FALSE]]

\* ftell(f)
Ftell(s) == s.pos

\* readdir(d): the next entry, or none at the end of the directory
Readdir(d) ==
    IF d.idx < Len(d.entries)
    THEN [found |-> TRUE, d_name |-> d.entries[d.idx + 1],
          d |-> [d EXCEPT !.idx = d.idx + 1]]
    ELSE [found |-> FALSE, d_name |-> <<>>, d |-> d]

(***************************************************************************)
(* fs_dir_read's copy into the caller's buffer fn[0 .. fn_len-1]           *)
(* (lines 294-299).  old is the buffer before the call.  The result is the *)
(* buffer after the call and whether a byte outside it was written.        *)
(***************************************************************************)
DirReadCopyNoEndMark(found, d_name, fn_len, old) ==
    LET L == U32(fn_len)
        c == U32Sub(L, U32(1))
        copied == [i \in 1..fn_len |->
                     IF U32Lt(U32(i - 1), c)
                     THEN (IF i <= Len(d_name) THEN d_name[i] ELSE NUL)
                     ELSE old[i]]
    IN  IF ~found
        THEN [buf |-> old, oob |-> FALSE]
        ELSE [buf |-> IF U32Lt(c, L) THEN [copied EXCEPT ![c[2] + 1] = NUL]
                                     ELSE copied,
              oob |-> U32Lt(L, c) \/ ~U32Lt(c, L)]

DirReadCopy(found, d_name, fn_len, old) ==
    LET L == U32(fn_len)
        c == U32Sub(L, U32(1))                 \* fn_len - 1, in uint32_t
        \* strncpy(fn, d_name, c): c bytes, the name and then NUL padding
        copied == [i \in 1..fn_len |->
                     IF U32Lt(U32(i - 1), c)
                     THEN (IF i <= Len(d_name) THEN d_name[i] ELSE NUL)
                     ELSE old[i]]
    IN  IF ~found
        THEN [buf |-> IF fn_len >= 1 THEN [old EXCEPT ![1] = NUL] ELSE old,
              oob |-> ~U32Lt(U32(0), L)]                       \* fn[0] = '\0'
        ELSE [buf |-> IF U32Lt(c, L) THEN [copied EXCEPT ![c[2] + 1] = NUL]
                                     ELSE copied,              \* fn[c] = '\0'
              oob |-> U32Lt(L, c) \/ ~U32Lt(c, L)]

(***************************************************************************)
(* The driver callbacks.                                                   *)
(***************************************************************************)
OsUnchanged == UNCHANGED <<fsys, files, dirs>>

\* the mode string fs_open selects (line 127): mode & LV_FS_MODE_WR
ModeStrAlwaysWrite(mode) == "wb"
ModeStrReadBit(mode) == IF (mode \div LV_FS_MODE_RD) % 2 = 1 THEN "rb" ELSE "wb"
ModeStr(mode) == IF (mode \div LV_FS_MODE_WR) % 2 = 1 THEN "wb" ELSE "rb"

\* fs_open, lines 113-135
fs_open(path, tail, mode) ==
    LET filepath == OpenPath(path, tail)
        mode_str == ModeStr(mode)
        call     == [NoCall EXCEPT !.op = "open", !.arg = mode, !.oscall = TRUE,
                                   !.ospath = filepath, !.osmode = mode_str]
        can      == /\ IsRootFile(filepath)
                    /\ mode_str = "rb" => Exists(filepath)
    IN  /\ ~ub
        /\ \/ /\ can
              /\ \E h \in FileHandles :
                    /\ files[h].st # "open"
                    /\ files' = [files EXCEPT ![h] =
                                   [st |-> "open", path |-> filepath, mode |-> mode_str,
                                    pos |-> 0, eof |-> FALSE, err |-> FALSE]]
                    /\ last' = [call EXCEPT !.h = h]
              /\ fsys' = IF mode_str = "wb"
                         THEN [q \in DOMAIN fsys \cup {filepath} |->
                                 IF q = filepath THEN <<>> ELSE fsys[q]]
                         ELSE fsys
              /\ UNCHANGED <<dirs, ub>>
           \/ /\ ~can \/ \A h \in FileHandles : files[h].st = "open"
              /\ last' = [call EXCEPT !.h = NULL]              \* fopen failed
              /\ UNCHANGED <<fsys, files, dirs, ub>>

\* a call that hands a released FILE* or DIR* to the C library
StaleCall(op, h, results, slot) ==
    /\ \E r \in results :
          last' = [NoCall EXCEPT !.op = op, !.h = h, !.res = r, !.oscall = TRUE,
                                 !.stale = TRUE, !.wrote = slot]
    /\ ub' = TRUE
    /\ OsUnchanged

NullCallZeroesOutput(op) ==
    /\ last' = [NoCall EXCEPT !.op = op, !.h = NULL, !.res = LV_FS_RES_UNKNOWN,
                               !.wrote = {"out"}]
    /\ UNCHANGED ub
    /\ OsUnchanged

NullCall(op) ==
    /\ last' = [NoCall EXCEPT !.op = op, !.h = NULL, !.res = LV_FS_RES_UNKNOWN]
    /\ UNCHANGED ub
    /\ OsUnchanged

BothResults == {LV_FS_RES_OK, LV_FS_RES_UNKNOWN}

\* fs_close, lines 146-152
fs_close(h) ==
    /\ ~ub
    /\ IF h = NULL THEN NullCall("close")
       ELSE IF files[h].st = "closed" THEN StaleCall("close", h, {LV_FS_RES_OK}, {})
       ELSE /\ files[h].st = "open"
            /\ files' = [files EXCEPT ![h] = ClosedStream]      \* fclose
            /\ last' = [NoCall EXCEPT !.op = "close", !.h = h, !.oscall = TRUE,
                                      !.res = LV_FS_RES_OK]
            /\ UNCHANGED <<fsys, dirs, ub>>

\* the status fs_read derives from fread's count and the stream flags (175-179)
ReadStatus(n, eof, err) ==
    IF n = 0
    THEN IF eof THEN LV_FS_RES_OK
         ELSE IF err THEN LV_FS_RES_UNKNOWN
         ELSE LV_FS_RES_OK
    ELSE LV_FS_RES_OK

\* fs_read, lines 166-180
fs_read(h, btr) ==
    /\ ~ub
    /\ IF h = NULL THEN NullCall("read")
       ELSE IF files[h].st = "closed" THEN StaleCall("read", h, BothResults, {"br"})
       ELSE /\ files[h].st = "open"
            /\ LET r == Fread(files[h], btr)
               IN  /\ files' = [files EXCEPT ![h] = r.s]
                   /\ last' = [NoCall EXCEPT !.op = "read", !.h = h, !.arg = btr,
                                 !.oscall = TRUE, !.n = r.n, !.out = r.n,
                                 !.wrote = {"br"}, !.data = r.data,
                                 !.res = ReadStatus(r.n, r.s.eof, r.s.err)]
            /\ UNCHANGED <<fsys, dirs, ub>>

\* fs_write, lines 194-205
fs_write(h, data) ==
    /\ ~ub
    /\ IF h = NULL THEN NullCall("write")
       ELSE IF files[h].st = "closed" THEN StaleCall("write", h, BothResults, {"bw"})
       ELSE /\ files[h].st = "open"
            /\ files[h].pos + Len(data) <= MaxFileLen
            /\ LET w == Fwrite(files[h], data)
               IN  /\ files' = [files EXCEPT ![h] = w.s]
                   /\ fsys' = IF w.n > 0 THEN [fsys EXCEPT ![files[h].path] = w.content]
                                         ELSE fsys
                   /\ last' = [NoCall EXCEPT !.op = "write", !.h = h,
                                 !.arg = Len(data), !.oscall = TRUE, !.n = w.n,
                                 !.out = w.n, !.wrote = {"bw"}, !.data = data,
                                 !.res = IF w.n < Len(data) /\ w.s.err
                                         THEN LV_FS_RES_UNKNOWN ELSE LV_FS_RES_OK]
            /\ UNCHANGED <<dirs, ub>>

\* the origin fs_seek's switch selects (lines 224-229)
OriginEndAsCur(whence) ==
    CASE whence = LV_FS_SEEK_SET -> "SEEK_SET"
      [] whence = LV_FS_SEEK_CUR -> "SEEK_CUR"
      [] whence = LV_FS_SEEK_END -> "SEEK_CUR"
      [] OTHER -> "SEEK_SET"
Origin(whence) ==
    CASE whence = LV_FS_SEEK_SET -> "SEEK_SET"
      [] whence = LV_FS_SEEK_CUR -> "SEEK_CUR"
      [] whence = LV_FS_SEEK_END -> "SEEK_END"
      [] OTHER -> "SEEK_SET"

\* fs_seek, lines 218-231
fs_seek(h, pos, whence) ==
    /\ ~ub
    /\ IF h = NULL THEN NullCall("seek")
       ELSE IF files[h].st = "closed" THEN StaleCall("seek", h, BothResults, {})
       ELSE /\ files[h].st = "open"
            /\ LET k == Fseek(files[h], ToLong(pos), Origin(whence))
               IN  /\ k.s.pos <= MaxFileLen
                   /\ files' = [files EXCEPT ![h] = k.s]
                   /\ last' = [NoCall EXCEPT !.op = "seek", !.h = h,
                                 !.arg = ToLong(pos), !.arg2 = whence,
                                 !.oscall = TRUE, !.n = k.rc,
                                 !.res = IF k.rc = 0 THEN LV_FS_RES_OK
                                                     ELSE LV_FS_RES_UNKNOWN]
            /\ UNCHANGED <<fsys, dirs, ub>>

\* history: the call before this one was seek(h, 0, LV_FS_SEEK_END) = Ok
SeekEndBefore(h) ==
    /\ last.op = "seek" /\ last.h = h /\ ~last.stale
    /\ last.arg = 0 /\ last.arg2 = LV_FS_SEEK_END /\ last.res = LV_FS_RES_OK

\* fs_tell, lines 243-252; have_pos_p is FALSE when pos_p is a null pointer
fs_tell(h, have_pos_p) ==
    /\ ~ub
    /\ IF h = NULL \/ ~have_pos_p
       THEN /\ last' = [NoCall EXCEPT !.op = "tell", !.h = h,
                                      !.res = LV_FS_RES_UNKNOWN]
            /\ UNCHANGED ub
            /\ OsUnchanged
       ELSE IF files[h].st = "closed" THEN StaleCall("tell", h, BothResults, {"pos"})
       ELSE /\ files[h].st = "open"
            /\ LET pos  == Ftell(files[h])
                   call == [NoCall EXCEPT !.op = "tell", !.h = h, !.oscall = TRUE,
                                          !.n = pos,
                                          !.after_seek_end = SeekEndBefore(h)]
               IN  last' = IF pos < 0
                           THEN [call EXCEPT !.res = LV_FS_RES_UNKNOWN]
                           ELSE [call EXCEPT !.out = pos, !.wrote = {"pos"},
                                             !.res = LV_FS_RES_OK]
            /\ UNCHANGED ub
            /\ OsUnchanged

\* fs_dir_open, lines 265-274
fs_dir_open(path, tail) ==
    LET dirpath == DirPath(path, tail)
        call    == [NoCall EXCEPT !.op = "dir_open", !.oscall = TRUE,
                                  !.ospath = dirpath]
        names   == {EntryName(p) : p \in DOMAIN fsys}
    IN  /\ ~ub
        /\ \/ /\ IsRootDir(dirpath)
              /\ \E h \in DirHandles, order \in Orderings(names) :
                    /\ dirs[h].st # "open"
                    /\ dirs' = [dirs EXCEPT ![h] =
                                  [st |-> "open", entries |-> order, idx |-> 0]]
                    /\ last' = [call EXCEPT !.h = h]
              /\ UNCHANGED <<fsys, files, ub>>
           \/ /\ ~IsRootDir(dirpath) \/ \A h \in DirHandles : dirs[h].st = "open"
              /\ last' = [call EXCEPT !.h = NULL]              \* opendir failed
              /\ UNCHANGED <<fsys, files, dirs, ub>>

\* fs_dir_read, lines 287-301; the caller's buffer holds unknown bytes before
fs_dir_read(h, fn_len) ==
    /\ ~ub
    /\ IF h = NULL THEN NullCall("dir_read")
       ELSE IF dirs[h].st = "closed"
       THEN StaleCall("dir_read", h, BothResults, {"fn"})
       ELSE /\ dirs[h].st = "open"
            /\ LET e  == Readdir(dirs[h])
                   cp == DirReadCopy(e.found, e.d_name, fn_len,
                                     [i \in 1..fn_len |-> "?"])
               IN  /\ dirs' = [dirs EXCEPT ![h] = e.d]
                   /\ last' = [NoCall EXCEPT !.op = "dir_read", !.h = h,
                                 !.arg = fn_len, !.oscall = TRUE,
                                 !.n = IF e.found THEN 1 ELSE 0,
                                 !.wrote = {"fn"}, !.data = cp.buf, !.oob = cp.oob,
                                 !.res = LV_FS_RES_OK]
                   /\ ub' = cp.oob
            /\ UNCHANGED <<fsys, files>>

\* fs_dir_close, lines 312-318
fs_dir_close(h) ==
    /\ ~ub
    /\ IF h = NULL THEN NullCall("dir_close")
       ELSE IF dirs[h].st = "closed"
       THEN StaleCall("dir_close", h, {LV_FS_RES_OK}, {})
       ELSE /\ dirs[h].st = "open"
            /\ dirs' = [dirs EXCEPT ![h] = ClosedDir]           \* closedir
            /\ last' = [NoCall EXCEPT !.op = "dir_close", !.h = h, !.oscall = TRUE,
                                      !.res = LV_FS_RES_OK]
            /\ UNCHANGED <<fsys, files, ub>>

(***************************************************************************)
(* The driver in use: any callback, with any argument.                     *)
(***************************************************************************)
FileA  == RootPrefix \o <<"a">>
FileBC == RootPrefix \o <<"b", "c">>
\* what the flash may hold when the driver is registered
InitialImages ==
    { [p \in D |-> c] : D \in SUBSET {FileA}, c \in {<<>>, <<"i">>} }
InitialDirImages ==
    { [p \in D |-> <<>>] : D \in SUBSET {FileA, FileBC} }

IdleTr == [r |-> <<>>, letter |-> "S", tail |-> <<>>, done |-> {},
           plain |-> <<>>, pref |-> <<>>, dirplain |-> <<>>, dirpref |-> <<>>]
\* what the scenario keeps of a call: its count argument, status and outputs
Outcome(call) == [arg |-> call.arg, res |-> call.res, out |-> call.out,
                  data |-> call.data]
IdleRt == [pc |-> 0, path |-> <<>>, mode |-> LV_FS_MODE_WR, b |-> <<>>,
           h |-> NULL, h2 |-> NULL,
           w |-> Outcome(NoCall), r1 |-> Outcome(NoCall), r2 |-> Outcome(NoCall)]

InitOs ==
    /\ fsys \in InitialImages
    /\ files = [h \in FileHandles |-> FreeStream]
    /\ dirs = [h \in DirHandles |-> FreeDir]
    /\ last = NoCall
    /\ ub = FALSE

Init == InitOs /\ tr = IdleTr /\ rt = IdleRt

FileArgs == {NULL} \cup {h \in FileHandles : files[h].st # "free"}
DirArgs  == {NULL} \cup {h \in DirHandles : dirs[h].st # "free"}
Modes == {LV_FS_MODE_WR, LV_FS_MODE_RD, LV_FS_MODE_RD + LV_FS_MODE_WR}

Harness == UNCHANGED <<tr, rt>>

\* the file callbacks; no directory is open, so the directory callbacks that
\* take a handle are called with the null handle
Next ==
    \/ \E path \in FilePathInputs, mode \in Modes :
          fs_open(path, <<>>, mode) /\ Harness
    \/ \E h \in FileArgs : fs_close(h) /\ Harness
    \/ \E h \in FileArgs, btr \in 0..(MaxFileLen + 1) : fs_read(h, btr) /\ Harness
    \/ \E h \in FileArgs, data \in WriteInputs : fs_write(h, data) /\ Harness
    \/ \E h \in FileArgs, pos \in SeekOffsets, whence \in Whences :
          fs_seek(h, pos, whence) /\ Harness
    \/ \E h \in FileArgs, have_pos_p \in BOOLEAN : fs_tell(h, have_pos_p) /\ Harness
    \/ \E h \in DirArgs, fn_len \in FnLens : fs_dir_read(h, fn_len) /\ Harness
    \/ \E h \in DirArgs : fs_dir_close(h) /\ Harness

Spec == Init /\ [][Next]_vars

\* the directory callbacks
NextDir ==
    \/ \E path \in DirPathInputs : fs_dir_open(path, <<>>) /\ Harness
    \/ \E h \in DirArgs, fn_len \in FnLens : fs_dir_read(h, fn_len) /\ Harness
    \/ \E h \in DirArgs : fs_dir_close(h) /\ Harness

InitDir ==
    /\ fsys \in InitialDirImages
    /\ files = [h \in FileHandles |-> FreeStream]
    /\ dirs = [h \in DirHandles |-> FreeDir]
    /\ last = NoCall
    /\ ub = FALSE
    /\ tr = IdleTr
    /\ rt = IdleRt

SpecDir == InitDir /\ [][NextDir]_vars

(***************************************************************************)
(* SpecPath: the path translation on its own.  A remainder r, a drive      *)
(* letter and the bytes behind the terminator are drawn at the start; the  *)
(* four actions translate r and "<letter>:" r as fs_open and fs_dir_open   *)
(* do.                                                                     *)
(***************************************************************************)
PathChars == {"/", ":", "a"}
PathStrings(n) == UNION {[1..k -> PathChars] : k \in 0..n}
Prefixed == <<tr.letter, ":">> \o tr.r

InitPath ==
    /\ fsys = [p \in {} |-> <<>>]
    /\ files = [h \in FileHandles |-> FreeStream]
    /\ dirs = [h \in DirHandles |-> FreeDir]
    /\ last = NoCall
    /\ ub = FALSE
    /\ rt = IdleRt
    /\ \E r \in PathStrings(MaxPathLen), tail \in Tails :
          tr = [IdleTr EXCEPT !.r = r, !.tail = tail]

OpenPlain ==
    /\ "plain" \notin tr.done
    /\ UNCHANGED <<fsys, files, dirs, last, ub, rt>>
    /\ tr' = [tr EXCEPT !.plain = OpenPath(tr.r, tr.tail), !.done = @ \cup {"plain"}]
OpenPrefixed ==
    /\ "pref" \notin tr.done
    /\ UNCHANGED <<fsys, files, dirs, last, ub, rt>>
    /\ tr' = [tr EXCEPT !.pref = OpenPath(Prefixed, tr.tail), !.done = @ \cup {"pref"}]
DirPlain ==
    /\ "dirplain" \notin tr.done
    /\ UNCHANGED <<fsys, files, dirs, last, ub, rt>>
    /\ tr' = [tr EXCEPT !.dirplain = DirPath(tr.r, tr.tail),
                        !.done = @ \cup {"dirplain"}]
DirPrefixed ==
    /\ "dirpref" \notin tr.done
    /\ UNCHANGED <<fsys, files, dirs, last, ub, rt>>
    /\ tr' = [tr EXCEPT !.dirpref = DirPath(Prefixed, tr.tail),
                        !.done = @ \cup {"dirpref"}]

NextPath == OpenPlain \/ OpenPrefixed \/ DirPlain \/ DirPrefixed

SpecPath == InitPath /\ [][NextPath]_vars

(***************************************************************************)
(* SpecRT: open(path, write), write(b), close, open(path, read), read(n),  *)
(* read again, one call after the other through the callbacks above.       *)
(***************************************************************************)
InitRT ==
    /\ InitOs
    /\ tr = IdleTr
    /\ \E path \in FilePathInputs, b \in ByteStrings(MaxFileLen),
          mode \in {LV_FS_MODE_WR, LV_FS_MODE_RD + LV_FS_MODE_WR} :
          rt = [IdleRt EXCEPT !.path = path, !.mode = mode, !.b = b]

RtOpenWrite ==
    /\ rt.pc = 0
    /\ UNCHANGED tr
    /\ fs_open(rt.path, <<>>, rt.mode)
    /\ last'.h # NULL
    /\ rt' = [rt EXCEPT !.pc = 1, !.h = last'.h]
RtWrite ==
    /\ rt.pc = 1
    /\ UNCHANGED tr
    /\ fs_write(rt.h, rt.b)
    /\ rt' = [rt EXCEPT !.pc = 2, !.w = Outcome(last')]
RtClose ==
    /\ rt.pc = 2
    /\ UNCHANGED tr
    /\ fs_close(rt.h)
    /\ rt' = [rt EXCEPT !.pc = 3]
RtOpenRead ==
    /\ rt.pc = 3
    /\ UNCHANGED tr
    /\ fs_open(rt.path, <<>>, LV_FS_MODE_RD)
    /\ rt' = [rt EXCEPT !.pc = 4, !.h2 = last'.h]
RtRead ==
    /\ rt.pc = 4
    /\ UNCHANGED tr
    /\ rt.h2 # NULL
    /\ \E n \in Len(rt.b)..(Len(rt.b) + 1) : fs_read(rt.h2, n)
    /\ rt' = [rt EXCEPT !.pc = 5, !.r1 = Outcome(last')]
RtReadAgain ==
    /\ rt.pc = 5
    /\ UNCHANGED tr
    /\ \E n \in 0..MaxFileLen : fs_read(rt.h2, n)
    /\ rt' = [rt EXCEPT !.pc = 6, !.r2 = Outcome(last')]

NextRT == RtOpenWrite \/ RtWrite \/ RtClose \/ RtOpenRead \/ RtRead \/ RtReadAgain

SpecRT == InitRT /\ [][NextRT]_vars

(***************************************************************************)
(* Properties.                                                             *)
(***************************************************************************)
HandleOps == {"close", "read", "write", "seek", "tell", "dir_read", "dir_close"}
FileOps == {"close", "read", "write", "seek", "tell"}
\* the call just made was given a handle that is currently open
OnOpenHandle(call) == call.h # NULL /\ ~call.stale

\* C1: a call made with a handle that fs_close / fs_dir_close has released
\* returns UnknownError and never reaches the C library with that handle.
CloseIsTerminal ==
    last.stale => (last.res = LV_FS_RES_UNKNOWN /\ ~last.oscall)

\* C2: fs_dir_open hands opendir the OS path that fs_open hands fopen for the
\* same abstract path, with or without a drive designator.
DirOpenSameTranslation ==
    /\ {"plain", "dirplain"} \subseteq tr.done => tr.dirplain = tr.plain
    /\ {"pref", "dirpref"} \subseteq tr.done => tr.dirpref = tr.pref

\* the mount point, one separating slash, the remainder
Expected(r) ==
    LV_FS_PATH \o (IF r # <<>> /\ r[1] = "/" THEN <<>> ELSE <<"/">>) \o r
Fits(r) == Len(Expected(r)) < FILEPATH_SIZE

\* C3 as stated: for every remainder r that fits the buffer (empty ones and
\* ones whose second character is ':' included), fs_open resolves r and
\* "<letter>:" r to the mount point followed by r with one separating slash.
PrefixStrippingAnyRemainder ==
    ({"plain", "pref"} \subseteq tr.done /\ Fits(tr.r))
        => (tr.plain = Expected(tr.r) /\ tr.pref = Expected(tr.r))

\* C3 as amended: the same, for every non-empty remainder r whose second
\* character is not ':'.
PrefixStripping ==
    ( /\ {"plain", "pref"} \subseteq tr.done
      /\ Fits(tr.r)
      /\ Len(tr.r) >= 1
      /\ (Len(tr.r) >= 2 => tr.r[2] # ":") )
        => (tr.plain = Expected(tr.r) /\ tr.pref = Expected(tr.r))

PrefixStrippingWitness ==
    /\ {"plain", "pref"} \subseteq tr.done
    /\ tr.r = <<"a", "/", "a">>
    /\ tr.plain = tr.pref

\* C4: every handle-taking callback called with a null handle returns
\* UnknownError, does not call the C library, writes no output slot and
\* leaves the streams and the flash as they were.
NullHandleRejected ==
    [][ (last'.op \in HandleOps /\ last'.h = NULL)
          => /\ last'.res = LV_FS_RES_UNKNOWN
             /\ ~last'.oscall
             /\ last'.wrote = {}
             /\ last'.data = <<>>
             /\ UNCHANGED <<fsys, files, dirs, ub>> ]_vars

NullHandleWitness ==
    /\ last.op = "read" /\ last.h = NULL /\ last.arg = 0
    /\ \E h \in FileHandles : files[h].st = "open"

WriteCapability(mode) == (mode \div LV_FS_MODE_WR) % 2 = 1

\* C5: fs_open with write capability (read+write included) opens "wb" and
\* the file is empty afterwards; without it fs_open opens "rb", creates
\* nothing and changes nothing; and no call on a stream opened "rb" changes
\* the flash.
OpenModeSafety ==
    [][ /\ (last'.op = "open" /\ WriteCapability(last'.arg))
            => /\ last'.osmode = "wb"
               /\ last'.h # NULL => /\ fsys'[last'.ospath] = <<>>
                                    /\ files'[last'.h].mode = "wb"
        /\ (last'.op = "open" /\ ~WriteCapability(last'.arg))
            => /\ last'.osmode = "rb"
               /\ fsys' = fsys
               /\ last'.h # NULL => /\ files'[last'.h].mode = "rb"
                                    /\ last'.ospath \in DOMAIN fsys
        /\ (last'.op \in FileOps /\ OnOpenHandle(last') /\ files[last'.h].mode = "rb")
            => fsys' = fsys ]_vars

OpenModeWitness ==
    /\ last.op = "write" /\ OnOpenHandle(last) /\ last.arg > 0
    /\ files[last.h].st = "open" /\ files[last.h].mode = "rb"
    /\ last.res = LV_FS_RES_UNKNOWN
    /\ fsys[files[last.h].path] # <<>>

\* C6: after open(path, write), write(b), close, open(path, read), the read
\* of n >= |b| bytes returns exactly b with Ok, and the next read returns 0
\* bytes with Ok.
RoundTrip ==
    /\ rt.pc >= 2 => (rt.w.res = LV_FS_RES_OK /\ rt.w.out = Len(rt.b))
    /\ rt.pc >= 4 => rt.h2 # NULL
    /\ rt.pc >= 5 => /\ rt.r1.res = LV_FS_RES_OK
                     /\ rt.r1.out = Len(rt.b)
                     /\ rt.r1.data = rt.b
    /\ rt.pc >= 6 => /\ rt.r2.res = LV_FS_RES_OK
                     /\ rt.r2.out = 0
                     /\ rt.r2.data = <<>>

RoundTripWitness ==
    /\ rt.pc = 6
    /\ Len(rt.b) = MaxFileLen
    /\ rt.r1.arg = Len(rt.b) + 1
    /\ rt.r2.arg > 0

\* C7: a read on an open handle stores fread's count in the bytes-read slot;
\* zero bytes at end-of-stream is Ok; zero bytes with the error flag set is
\* UnknownError whatever the eof flag; more than zero bytes is Ok.
ReadStatusClaim ==
    (last.op = "read" /\ OnOpenHandle(last))
        => LET s == files[last.h]
           IN  /\ last.out = last.n
               /\ (last.n = 0 /\ s.eof /\ ~s.err) => last.res = LV_FS_RES_OK
               /\ (last.n = 0 /\ s.err) => last.res = LV_FS_RES_UNKNOWN
               /\ last.n > 0 => last.res = LV_FS_RES_OK

\* C8: fs_dir_open starts at the first of the directory's entries, each
\* listed once; every fs_dir_read returns Ok; while entries remain it
\* advances by one and returns that entry's name (given a buffer that holds
\* the name and its terminator); from then on it returns the empty name.
DirIteration ==
    [][ /\ (last'.op = "dir_open" /\ last'.h # NULL)
            => LET d == dirs'[last'.h]
               IN  /\ d.idx = 0
                   /\ {d.entries[i] : i \in DOMAIN d.entries}
                         = {EntryName(p) : p \in DOMAIN fsys}
                   /\ \A i, j \in DOMAIN d.entries :
                         d.entries[i] = d.entries[j] => i = j
        /\ (last'.op = "dir_read" /\ OnOpenHandle(last'))
            => LET d    == dirs[last'.h]
                   k    == Len(d.entries)
                   name == CStrAt(last'.data, 0)
               IN  /\ last'.res = LV_FS_RES_OK
                   /\ dirs'[last'.h].entries = d.entries
                   /\ d.idx < k =>
                         /\ dirs'[last'.h].idx = d.idx + 1
                         /\ last'.arg > Len(d.entries[d.idx + 1])
                               => name = d.entries[d.idx + 1]
                   /\ d.idx >= k =>
                         /\ dirs'[last'.h].idx = d.idx
                         /\ last'.arg >= 1 => name = <<>> ]_vars

DirIterationWitness ==
    /\ last.op = "dir_read" /\ OnOpenHandle(last)
    /\ Len(dirs[last.h].entries) = 2 /\ dirs[last.h].idx = 2
    /\ last.n = 0 /\ last.arg >= 1
    /\ CStrAt(last.data, 0) = <<>>

\* C9: tell right after an Ok seek(h, 0, FromEnd) returns Ok and the file's
\* length; seek moves to offset + start / current position / end for
\* FromStart / FromCurrent / FromEnd, any other whence counting as
\* FromStart, and returns Ok exactly when that target is not negative.
SeekTell ==
    [][ /\ (last'.op = "tell" /\ last'.after_seek_end)
            => /\ last'.res = LV_FS_RES_OK
               /\ last'.out = Len(fsys'[files'[last'.h].path])
        /\ (last'.op = "seek" /\ OnOpenHandle(last'))
            => LET s      == files[last'.h]
                   base   == CASE last'.arg2 = LV_FS_SEEK_SET -> 0
                               [] last'.arg2 = LV_FS_SEEK_CUR -> s.pos
                               [] last'.arg2 = LV_FS_SEEK_END -> Len(fsys[s.path])
                               [] OTHER -> 0
                   target == base + last'.arg
               IN  /\ last'.res = LV_FS_RES_OK <=> target >= 0
                   /\ target >= 0 => files'[last'.h].pos = target
                   /\ target < 0 => files' = files ]_vars

SeekTellWitness ==
    /\ last.op = "tell" /\ last.after_seek_end
    /\ last.out >= 1
    /\ files[last.h].mode = "wb"

\* C10: fs_dir_read writes only inside fn[0 .. fn_len-1], for every fn_len
\* from 0 up, and leaves a NUL in that range.
DirReadInBounds ==
    (last.op = "dir_read" /\ OnOpenHandle(last))
        => /\ ~last.oob
           /\ \E i \in 1..Len(last.data) : last.data[i] = NUL

====
